---- MODULE Spec2Model ----
(***************************************************************************)
(* Model of the project-2 KvStore (src/project-2/src/lib.rs): a key-value  *)
(* store kept in numbered log files "<n>.bin" of bincode-encoded           *)
(* Transaction records, an in-memory map key -> (file, offset) and an      *)
(* in-memory map file -> number of expired records.                        *)
(*                                                                         *)
(* Files are modelled as byte sequences; strings are sequences of byte     *)
(* values.  I/O failures of the file system are not modelled.              *)
(***************************************************************************)
EXTENDS Integers, Sequences, FiniteSets, TLC

VARIABLES
    disk,      \* the directory: segment id n |-> bytes of "<n>.bin"
    others,    \* the directory: its entries that are not "<n>.bin" files
    opened,    \* TRUE while a KvStore value exists
    storage,   \* KvStore.storage: key |-> <<file index, offset>>
    files,     \* KvStore.files: file index |-> expired count
    last,      \* the last call and what it returned
    sess,      \* reference map of the calls issued on the current store
    preView,   \* what get returned for every key when the store was dropped
    fresh,     \* TRUE while the directory holds only what the current store wrote
    torn,      \* the partial records left by interrupted writes
    writes     \* number of writes to the files so far

vars == <<disk, others, opened, storage, files, last, sess, preView, fresh, torn, writes>>

(***************************************************************************)
(* Bounds and inputs                                                       *)
(***************************************************************************)
MaxWrites == 3

LongLen == 980

\* lib.rs:145  `if file_size >= 1000`
Threshold == 1000

KeyA == <<97>>
KeyB == <<98>>
Keys == {KeyA, KeyB}

ValOne == <<49>>
ValLong == [i \in 1..LongLen |-> 120]
Values == {ValOne, ValLong}

NoKey == <<>>
NoVal == <<>>

EmptyMap == [x \in {} |-> 0]

Max(S) == CHOOSE m \in S : \A x \in S : x <= m
Min(S) == CHOOSE m \in S : \A x \in S : m <= x

(***************************************************************************)
(* Transaction codec: bincode 1.x with its default options (fixed-width    *)
(* little-endian integers): an enum is a u32 variant index followed by its *)
(* fields, a String is a u64 byte length followed by the bytes.            *)
(***************************************************************************)
TagSet == 0
TagRemove == 1

SetTx(k, v) == [tag |-> TagSet, key |-> k, value |-> v]
RemoveTx(k) == [tag |-> TagRemove, key |-> k, value |-> NoVal]

U32(n) == <<n % 256, (n \div 256) % 256, (n \div 65536) % 256, 0>>
U64(n) == U32(n) \o <<0, 0, 0, 0>>
EncStr(s) == U64(Len(s)) \o s

\* bincode::serialize_into(&mut file, &transaction)
Encode(t) ==
    IF t.tag = TagSet
    THEN U32(TagSet) \o EncStr(t.key) \o EncStr(t.value)
    ELSE U32(TagRemove) \o EncStr(t.key)

\* Result of one bincode::deserialize_from at byte offset pos (0-based).
\*   kind "Set"/"Remove": a record was decoded, next is the offset after it
\*   kind "eof": read_exact ran out of bytes ("failed to fill whole buffer")
\*   kind "bad": any other decode error (variant index, UTF-8)
DecEof == [kind |-> "eof", key |-> NoKey, value |-> NoVal, next |-> 0]
DecBad == [kind |-> "bad", key |-> NoKey, value |-> NoVal, next |-> 0]

Avail(bytes, pos, n) == pos + n <= Len(bytes)

\* A little-endian integer of w bytes at pos.  Values of 65536 and above
\* are all reported as 65536: they are no variant index and exceed the
\* length of every file of the model.
ReadInt(bytes, pos, w) ==
    IF \E i \in 3..w : bytes[pos + i] # 0
    THEN 65536
    ELSE bytes[pos + 1] + 256 * bytes[pos + 2]

\* The bytes the model writes are ASCII; 128..255 stands for a byte
\* sequence that is not UTF-8.
ValidUtf8(s) == \A i \in 1..Len(s) : s[i] < 128

\* A String at pos: <<status, string, next offset>>.  A length beyond the
\* bytes left ends in read_exact's error; the buffer bincode allocates for
\* it first is taken to be available.
ReadStr(bytes, pos) ==
    IF ~Avail(bytes, pos, 8) THEN <<"eof", <<>>, 0>>
    ELSE LET n == ReadInt(bytes, pos, 8) IN
         IF ~Avail(bytes, pos + 8, n) THEN <<"eof", <<>>, 0>>
         ELSE LET s == SubSeq(bytes, pos + 9, pos + 8 + n) IN
              IF ValidUtf8(s) THEN <<"ok", s, pos + 8 + n>>
              ELSE <<"bad", <<>>, 0>>

Decode(bytes, pos) ==
    IF ~Avail(bytes, pos, 4) THEN DecEof
    ELSE LET tag == ReadInt(bytes, pos, 4) IN
         IF tag \notin {TagSet, TagRemove} THEN DecBad
         ELSE LET k == ReadStr(bytes, pos + 4) IN
              IF k[1] = "eof" THEN DecEof
              ELSE IF k[1] = "bad" THEN DecBad
              ELSE IF tag = TagRemove
                   THEN [kind |-> "Remove", key |-> k[2], value |-> NoVal,
                         next |-> k[3]]
                   ELSE LET v == ReadStr(bytes, k[3]) IN
                        IF v[1] = "eof" THEN DecEof
                        ELSE IF v[1] = "bad" THEN DecBad
                        ELSE [kind |-> "Set", key |-> k[2], value |-> v[2],
                              next |-> v[3]]

(***************************************************************************)
(* The maps of the store                                                   *)
(***************************************************************************)
\* An expired count that starts at 0 for a file without an entry.
BumpExpiredOrZero(f, i) ==
    IF i \in DOMAIN f
    THEN [f EXCEPT ![i] = @ + 1]
    ELSE [j \in DOMAIN f \cup {i} |-> IF j = i THEN 0 ELSE f[j]]

\* files.entry(i).and_modify(|c| *c += 1).or_insert(1)
BumpExpired(f, i) ==
    IF i \in DOMAIN f
    THEN [f EXCEPT ![i] = @ + 1]
    ELSE [j \in DOMAIN f \cup {i} |-> IF j = i THEN 1 ELSE f[j]]

\* files.insert(i, 0): the count of a tracked file is reset.
TrackReset(f, i) ==
    [j \in DOMAIN f \cup {i} |-> IF j = i THEN 0 ELSE f[j]]

\* files.entry(i).or_insert(0)
Track(f, i) ==
    IF i \in DOMAIN f THEN f
    ELSE [j \in DOMAIN f \cup {i} |-> IF j = i THEN 0 ELSE f[j]]

\* storage.insert(key, (file_index, pos))
Insert(st, k, loc) ==
    [j \in DOMAIN st \cup {k} |-> IF j = k THEN loc ELSE st[j]]

\* A remove that leaves the entry in the map.
DeleteNothing(st, k) == st

\* storage.remove(&key)
Delete(st, k) == [j \in DOMAIN st \ {k} |-> st[j]]

\* The file "<i>.bin" as the code sees it; a missing file reads as empty.
FileBytes(d, i) == IF i \in DOMAIN d THEN d[i] ELSE <<>>

\* Append bytes to "<i>.bin", creating it when missing.
Append2(d, i, bytes) ==
    [j \in DOMAIN d \cup {i} |-> IF j = i THEN FileBytes(d, i) \o bytes ELSE d[j]]

\* A write through a file opened with truncate(true).
WriteTruncating(d, i, pos, bytes) ==
    [j \in DOMAIN d \cup {i} |-> IF j = i THEN bytes ELSE d[j]]

\* Write bytes into "<i>.bin" at offset pos, creating it when missing: the
\* file of set, opened with write(true).create(true).
WriteAt(d, i, pos, bytes) ==
    LET old == FileBytes(d, i)
        new == SubSeq(old, 1, pos) \o bytes
                 \o SubSeq(old, pos + Len(bytes) + 1, Len(old)) IN
    [j \in DOMAIN d \cup {i} |-> IF j = i THEN new ELSE d[j]]

(***************************************************************************)
(* KvStore::open                                                           *)
(***************************************************************************)
\* The replay loop taking the offset after the decode for the record's.
ApplyRecordAfter(st, file_index, pos, d) ==
    LET known == d.key \in DOMAIN st.storage IN
    IF d.kind = "Set"
    THEN [storage |-> Insert(st.storage, d.key, <<file_index, d.next>>),
          files   |-> IF known
                      THEN BumpExpired(st.files, st.storage[d.key][1])
                      ELSE st.files,
          err     |-> st.err]
    ELSE IF known
         THEN [storage |-> Delete(st.storage, d.key),
               files   |-> BumpExpired(st.files, st.storage[d.key][1]),
               err     |-> st.err]
         ELSE st

\* One Ok(transaction) arm of the replay loop, applied to the maps built so
\* far (st = [storage, files, err]) for a record decoded at offset pos of
\* file file_index.
ApplyRecord(st, file_index, pos, d) ==
    LET known == d.key \in DOMAIN st.storage IN
    IF d.kind = "Set"
    THEN [storage |-> Insert(st.storage, d.key, <<file_index, pos>>),
          files   |-> IF known
                      THEN BumpExpired(st.files, st.storage[d.key][1])
                      ELSE st.files,
          err     |-> st.err]
    ELSE IF known
         THEN [storage |-> Delete(st.storage, d.key),
               files   |-> BumpExpired(st.files, st.storage[d.key][1]),
               err     |-> st.err]
         ELSE st

\* An Err(e) arm that returns every error from open.
IsEndOfFileNever(d) == FALSE

\* An Err(e) arm that takes every error for the end of the file.
IsEndOfFileAlways(d) == TRUE

\* What the Err(e) arm does with a failed decode: TRUE to break out of the
\* loop of this file, FALSE to return the error from open.
IsEndOfFile(d) == d.kind = "eof"

\* The `loop` over one file, from offset pos.
RECURSIVE ReplayFile(_, _, _, _)
ReplayFile(bytes, file_index, pos, st) ==
    LET d == Decode(bytes, pos) IN
    IF d.kind \in {"Set", "Remove"}
    THEN ReplayFile(bytes, file_index, d.next,
                    ApplyRecord(st, file_index, pos, d))
    ELSE IF IsEndOfFile(d) THEN st
    ELSE [st EXCEPT !.err = TRUE]

\* A directory entry: the stem and the extension of its name, and whether
\* it is a directory.
Entry(stem, ext, dir) == [stem |-> stem, ext |-> ext, dir |-> dir]

\* format!("{}", n): the decimal digits of n, as bytes.
RECURSIVE Digits(_)
Digits(n) ==
    IF n < 10 THEN <<48 + n>> ELSE Digits(n \div 10) \o <<48 + (n % 10)>>

\* The value of a sequence of decimal digits.
RECURSIVE DigitsValue(_)
DigitsValue(s) ==
    IF s = <<>> THEN 0
    ELSE 10 * DigitsValue(SubSeq(s, 1, Len(s) - 1)) + (s[Len(s)] - 48)

\* stem.parse::<u32>(): the number, or -1 for Err.  One leading '+' is
\* accepted; stems beyond u32 do not occur.
ParseU32(stem) ==
    LET body == IF stem # <<>> /\ stem[1] = 43 THEN Tail(stem) ELSE stem IN
    IF body = <<>> \/ \E j \in 1..Len(body) : body[j] \notin 48..57
    THEN -1
    ELSE DigitsValue(body)

\* The entry of the file "<i>.bin".
SegmentEntry(i) == Entry(Digits(i), "bin", FALSE)

\* The entries of the directory.
Entries(d, o) == {SegmentEntry(i) : i \in DOMAIN d} \cup o

\* The orders in which fs::read_dir may return the entries S.
Listings(S) ==
    {l \in [1..Cardinality(S) -> S] :
        \A i, j \in 1..Cardinality(S) : l[i] = l[j] => i = j}

\* The elements of a set of numbers in ascending order.
RECURSIVE Ascending(_)
Ascending(S) ==
    IF S = {} THEN <<>> ELSE <<Min(S)>> \o Ascending(S \ {Min(S)})

\* The entries of a listing that the first loop of open takes for log
\* files: not a directory, and a stem that parses as u32.
IsIndexed(e) == ~e.dir /\ ParseU32(e.stem) >= 0

\* The indexes in the order of the listing (a Vec in place of the BTreeSet).
FileIndexesAsListed(listing) ==
    LET kept == SelectSeq(listing, IsIndexed) IN
    [j \in 1..Len(kept) |-> ParseU32(kept[j].stem)]

\* file_indexes: the BTreeSet of the parsed stems, in its iteration order.
FileIndexes(listing) ==
    Ascending({ParseU32(listing[j].stem) :
                 j \in {x \in 1..Len(listing) : IsIndexed(listing[x])}})

NoMaps == [storage |-> EmptyMap, files |-> EmptyMap, err |-> FALSE]

\* `for file_index in file_indexes`: in the order of todo, stopping at the
\* first error.  A file that does not exist is created empty.
RECURSIVE ReplayAll(_, _, _)
ReplayAll(d, todo, st) ==
    IF todo = <<>> \/ st.err THEN st
    ELSE LET i == Head(todo) IN
         ReplayAll(d, Tail(todo), ReplayFile(FileBytes(d, i), i, 0, st))

\* The indexes whose file "<i>.bin" the loop opens (with create(true)).
RECURSIVE OpenedFiles(_, _, _)
OpenedFiles(d, todo, st) ==
    IF todo = <<>> \/ st.err THEN {}
    ELSE LET i == Head(todo) IN
         {i} \cup OpenedFiles(d, Tail(todo),
                              ReplayFile(FileBytes(d, i), i, 0, st))

\* open on a directory whose entries read_dir returns as `listing`.
OpenResultIn(d, listing) == ReplayAll(d, FileIndexes(listing), NoMaps)

\* The log files after that open.
DiskAfterOpen(d, listing) ==
    LET todo == FileIndexes(listing) IN
    IF \A j \in 1..Len(todo) : todo[j] \in DOMAIN d THEN d
    ELSE LET made == OpenedFiles(d, todo, NoMaps) IN
         [i \in DOMAIN d \cup made |-> FileBytes(d, i)]

\* open on a directory that holds the log files d and nothing else.
OpenResult(d) ==
    OpenResultIn(d, CHOOSE l \in Listings(Entries(d, {})) : TRUE)

(***************************************************************************)
(* KvStore::set, KvStore::get, KvStore::remove as functions of the store   *)
(***************************************************************************)
\* files.keys().max().copied().unwrap_or(0)
ActiveFileIndex(f) == IF DOMAIN f = {} THEN 0 ELSE Max(DOMAIN f)

\* fs::metadata(path).map(|m| m.len()).unwrap_or(0)
FileSize(d, i) == Len(FileBytes(d, i))

\* The file set writes to.
SetTarget(f, d) ==
    LET active == ActiveFileIndex(f) IN
    IF FileSize(d, active) >= Threshold THEN active + 1 ELSE active

\* A write position taken without seeking to the end.
SeekStart(d, i) == 0

\* file.seek(SeekFrom::End(0))
SeekEnd(d, i) == Len(FileBytes(d, i))

\* get_next_file_index
NextFileIndex(f) == IF DOMAIN f = {} THEN 0 ELSE Max(DOMAIN f) + 1

Out(r, v) == [res |-> r, value |-> v]
Absent == Out("none", NoVal)
Untouched == Out("untouched", NoVal)

\* What get(key) returns on store maps st over directory d:
\*   "value" Ok(Some(value)), "none" Ok(None), "err" Err(_),
\*   "panic" the panic! of the Remove arm.
GetOutcome(st, d, k) ==
    IF k \notin DOMAIN st THEN Absent
    ELSE LET file_index == st[k][1]
             offset == st[k][2] IN
         IF file_index \notin DOMAIN d THEN Out("err", NoVal)
         ELSE LET t == Decode(d[file_index], offset) IN
              IF t.kind = "Set" THEN Out("value", t.value)
              ELSE IF t.kind = "Remove" THEN Out("panic", NoVal)
              ELSE Out("err", NoVal)

\* What remove(key) returns.
RemoveOutcome(st, k) == IF k \in DOMAIN st THEN "ok" ELSE "KeyNotFound"

\* A remove that writes its record before it looks the key up.
RemoveWritesAlways(st, f, d, k) ==
    Append2(d, NextFileIndex(f), Encode(RemoveTx(k)))

\* The log files after remove(key): the file of remove is opened with
\* append(true).create(true), and only when the key is in storage.
RemoveWrites(st, f, d, k) ==
    IF RemoveOutcome(st, k) = "ok"
    THEN Append2(d, NextFileIndex(f), Encode(RemoveTx(k)))
    ELSE d

View(st, d) == [k \in Keys |-> GetOutcome(st, d, k)]

Call(op, k, r, seg) == [op |-> op, key |-> k, res |-> r, seg |-> seg]

(***************************************************************************)
(* Actions                                                                 *)
(***************************************************************************)
Init ==
    /\ disk = EmptyMap
    /\ others = {}
    /\ opened = FALSE
    /\ storage = EmptyMap
    /\ files = EmptyMap
    /\ last = Call("init", NoKey, "ok", -1)
    /\ sess = [k \in Keys |-> Untouched]
    /\ preView = [k \in Keys |-> Absent]
    /\ fresh = FALSE
    /\ torn = {}
    /\ writes = 0

Open ==
    /\ ~opened
    /\ \E listing \in Listings(Entries(disk, others)) :
          LET r == OpenResultIn(disk, listing) IN
          /\ disk' = DiskAfterOpen(disk, listing)
          /\ IF r.err
             THEN /\ last' = Call("open", NoKey, "err", -1)
                  /\ UNCHANGED <<opened, storage, files, fresh>>
             ELSE /\ last' = Call("open", NoKey, "ok", -1)
                  /\ opened' = TRUE
                  /\ storage' = r.storage
                  /\ files' = r.files
                  /\ fresh' = (Entries(disk, others) = {})
    /\ sess' = [k \in Keys |-> Untouched]
    /\ UNCHANGED <<others, preView, torn, writes>>

\* The store is dropped (the process ends).
Close ==
    /\ opened
    /\ opened' = FALSE
    /\ storage' = EmptyMap
    /\ files' = EmptyMap
    /\ preView' = View(storage, disk)
    /\ last' = Call("close", NoKey, "ok", -1)
    /\ sess' = [k \in Keys |-> Untouched]
    /\ fresh' = FALSE
    /\ UNCHANGED <<disk, others, torn, writes>>

Set(k, v) ==
    /\ opened
    /\ writes < MaxWrites
    /\ LET file_index == SetTarget(files, disk)
           pos == SeekEnd(disk, file_index)
           marked == IF k \in DOMAIN storage
                     THEN BumpExpired(files, storage[k][1])
                     ELSE files
       IN /\ disk' = WriteAt(disk, file_index, pos, Encode(SetTx(k, v)))
          /\ storage' = Insert(storage, k, <<file_index, pos>>)
          /\ files' = Track(marked, file_index)
          /\ last' = Call("set", k, "ok", file_index)
    /\ sess' = [sess EXCEPT ![k] = Out("value", v)]
    /\ writes' = writes + 1
    /\ UNCHANGED <<others, opened, preView, fresh, torn>>

Get(k) ==
    /\ opened
    /\ LET r == GetOutcome(storage, disk, k) IN
       /\ last' = Call("get", k, r.res, -1)
       /\ IF r.res = "panic"
          THEN /\ opened' = FALSE
               /\ storage' = EmptyMap
               /\ files' = EmptyMap
               /\ fresh' = FALSE
               /\ sess' = [j \in Keys |-> Untouched]
          ELSE UNCHANGED <<opened, storage, files, fresh, sess>>
    /\ UNCHANGED <<disk, others, preView, torn, writes>>

Remove(k) ==
    /\ opened
    /\ IF RemoveOutcome(storage, k) = "ok"
       THEN LET file_index == storage[k][1]
                new_file_index == NextFileIndex(files) IN
            /\ writes < MaxWrites
            /\ files' = BumpExpired(files, file_index)
            /\ storage' = Delete(storage, k)
            /\ last' = Call("remove", k, "ok", new_file_index)
            /\ sess' = [sess EXCEPT ![k] = Absent]
            /\ writes' = writes + 1
       ELSE /\ last' = Call("remove", k, "KeyNotFound", -1)
            /\ UNCHANGED <<files, storage, sess, writes>>
    /\ disk' = RemoveWrites(storage, files, disk, k)
    /\ UNCHANGED <<others, opened, preView, fresh, torn>>

(***************************************************************************)
(* The environment: a process killed inside serialize_into, and a file     *)
(* changed by something other than the store.                              *)
(***************************************************************************)
\* The byte counts at which a record of `size` bytes may be cut: after the
\* variant index, after the key, and one byte short of the whole record.
CutPoints(size) == ({4, 13} \cup {size - 1}) \cap (1..(size - 1))

\* The process dies: the store is gone, n bytes of rec are in file i.
Interrupted(i, rec, n) ==
    /\ disk' = Append2(disk, i, SubSeq(rec, 1, n))
    /\ torn' = torn \cup {[seg |-> i, at |-> SeekEnd(disk, i), n |-> n]}
    /\ opened' = FALSE
    /\ storage' = EmptyMap
    /\ files' = EmptyMap
    /\ preView' = View(storage, disk)
    /\ sess' = [j \in Keys |-> Untouched]
    /\ fresh' = FALSE
    /\ writes' = writes + 1
    /\ UNCHANGED others

\* set(k, v) killed after n bytes of its record reached the file.
CrashSet(k, v) ==
    /\ opened
    /\ writes < MaxWrites
    /\ LET rec == Encode(SetTx(k, v))
           file_index == SetTarget(files, disk) IN
       \E n \in CutPoints(Len(rec)) :
          /\ Interrupted(file_index, rec, n)
          /\ last' = Call("crash", NoKey, "killed", file_index)

\* remove(k) killed after n bytes of its record reached the file.
CrashRemove(k) ==
    /\ opened
    /\ writes < MaxWrites
    /\ RemoveOutcome(storage, k) = "ok"
    /\ LET rec == Encode(RemoveTx(k))
           new_file_index == NextFileIndex(files) IN
       \E n \in CutPoints(Len(rec)) :
          /\ Interrupted(new_file_index, rec, n)
          /\ last' = Call("crash", NoKey, "killed", new_file_index)

\* The byte positions (1-based) and the byte values of an outside change:
\* the low byte of the first record's variant index and the first byte of
\* its key; the other variant, no variant, a byte that is not UTF-8.
CorruptAt == {1, 13}
CorruptTo == {1, 2, 255}

\* Something other than the store overwrites one byte of a file.
Corrupt ==
    /\ writes < MaxWrites
    /\ \E i \in DOMAIN disk, p \in CorruptAt, b \in CorruptTo :
          /\ p <= Len(disk[i])
          /\ disk[i][p] # b
          /\ disk' = [disk EXCEPT ![i] = [@ EXCEPT ![p] = b]]
          /\ last' = Call("corrupt", NoKey, "ok", i)
    /\ fresh' = FALSE
    /\ writes' = writes + 1
    /\ UNCHANGED <<others, opened, storage, files, sess, preView, torn>>

\* The entries something else may put into the directory: the file "x.bin",
\* the file "1.txt" and the directory "9".
ForeignEntries ==
    {Entry(<<120>>, "bin", FALSE), Entry(<<49>>, "txt", FALSE),
     Entry(<<57>>, "", TRUE)}

\* Something other than the store creates an entry in the directory.
PutEntry(e) ==
    /\ writes < MaxWrites
    /\ e \notin others
    /\ others' = others \cup {e}
    /\ last' = Call("put", NoKey, "ok", -1)
    /\ fresh' = FALSE
    /\ writes' = writes + 1
    /\ UNCHANGED <<disk, opened, storage, files, sess, preView, torn>>

Next ==
    \/ Open
    \/ Close
    \/ \E k \in Keys, v \in Values : Set(k, v)
    \/ \E k \in Keys : Get(k)
    \/ \E k \in Keys : Remove(k)

Spec == Init /\ [][Next]_vars

\* The store with writes that may be interrupted.
NextCrash ==
    \/ Next
    \/ \E k \in Keys, v \in Values : CrashSet(k, v)
    \/ \E k \in Keys : CrashRemove(k)

SpecCrash == Init /\ [][NextCrash]_vars

\* The store over files that something else may change.
NextCorrupt ==
    \/ Next
    \/ Corrupt

SpecCorrupt == Init /\ [][NextCorrupt]_vars

\* The store in a directory that holds other entries too.
NextForeign ==
    \/ Next
    \/ \E e \in ForeignEntries : PutEntry(e)

SpecForeign == Init /\ [][NextForeign]_vars

(***************************************************************************)
(* Properties                                                              *)
(***************************************************************************)
Count(f, i) == IF i \in DOMAIN f THEN f[i] ELSE 0

\* The highest segment id of the directory, 0 when it holds no segment.
HighestSegment(d) == IF DOMAIN d = {} THEN 0 ELSE Max(DOMAIN d)

\* The offsets of file `bytes` at which the records found by reading it
\* from offset pos onwards begin.
RECURSIVE RecordStarts(_, _)
RecordStarts(bytes, pos) ==
    LET d == Decode(bytes, pos) IN
    IF d.kind \in {"Set", "Remove"}
    THEN {pos} \cup RecordStarts(bytes, d.next)
    ELSE {}

\* How reading file `bytes` from offset pos onwards ends: "eof" or "bad".
RECURSIVE ScanEnd(_, _)
ScanEnd(bytes, pos) ==
    LET d == Decode(bytes, pos) IN
    IF d.kind \in {"Set", "Remove"} THEN ScanEnd(bytes, d.next) ELSE d.kind

\* C1: on an open store get(k) returns what a reference map of the set and
\* remove calls issued on it holds for k: the value of the latest set(k, v)
\* when no remove(k) followed it, absent after a remove(k).
C1_GetAgreesWithReference ==
    opened =>
        \A k \in Keys :
            sess[k] # Untouched => GetOutcome(storage, disk, k) = sess[k]

\* A key overwritten and read back from a second segment, another removed.
C1_Witness ==
    /\ opened
    /\ sess[KeyA] = Out("value", ValOne)
    /\ sess[KeyB] = Absent
    /\ KeyA \in DOMAIN storage
    /\ storage[KeyA][1] = 1
    /\ storage[KeyA][2] > 0

\* C2: after a reopen get(k) returns for every key what it returned just
\* before the store was dropped.
C2_ReopenKeepsView ==
    (opened /\ last.op = "open") =>
        \A k \in Keys : GetOutcome(storage, disk, k) = preView[k]

\* C3: remove(k) fails with KeyNotFound exactly when k is not in the index;
\* when it succeeds the next get(k) returns Ok(None) and the next remove(k)
\* fails with KeyNotFound.
C3_RemoveContract ==
    [][\A k \in Keys :
          (opened /\ last'.op = "remove" /\ last'.key = k) =>
              IF k \in DOMAIN storage
              THEN /\ last'.res = "ok"
                   /\ GetOutcome(storage', disk', k) = Absent
                   /\ RemoveOutcome(storage', k) = "KeyNotFound"
              ELSE last'.res = "KeyNotFound"]_vars

\* A remove that failed on a key the same store had removed before.
C3_Witness ==
    /\ opened
    /\ last.op = "remove"
    /\ last.res = "KeyNotFound"
    /\ sess[last.key] = Absent

\* C4: on a store opened on an empty directory, the index and the expired
\* counts in memory equal those that open builds from the files written
\* so far (a file without a count having count 0).
C4_ReplayDeterminism ==
    (opened /\ fresh) =>
        LET r == OpenResult(disk) IN
        /\ ~r.err
        /\ r.storage = storage
        /\ \A i \in DOMAIN disk \cup DOMAIN files \cup DOMAIN r.files :
               Count(r.files, i) = Count(files, i)

\* The directory without the bytes of the partial record t.
Stripped(d, t) == [d EXCEPT ![t.seg] = SubSeq(@, 1, t.at)]

\* C5: when the only partial record of the directory ends its highest
\* segment, open succeeds, builds the index and the expired counts of the
\* directory without the partial record, indexes nothing at the partial
\* record, and get returns for every key what it returns without it.
C5_TruncationTolerance ==
    \A t \in torn :
        ( /\ last.op = "open"
          /\ torn = {t}
          /\ t.seg = HighestSegment(disk)
          /\ Len(disk[t.seg]) = t.at + t.n )
        => LET r == OpenResult(Stripped(disk, t)) IN
           /\ last.res = "ok"
           /\ opened
           /\ storage = r.storage
           /\ files = r.files
           /\ \A k \in DOMAIN storage : storage[k] # <<t.seg, t.at>>
           /\ \A k \in Keys :
                  GetOutcome(storage, disk, k)
                      = GetOutcome(r.storage, Stripped(disk, t), k)

\* An open over a highest segment that holds a record, a key among them,
\* followed by a partial record.
C5_Witness ==
    \E t \in torn :
        /\ last.op = "open"
        /\ torn = {t}
        /\ t.seg = HighestSegment(disk)
        /\ Len(disk[t.seg]) = t.at + t.n
        /\ t.at > 0
        /\ t.seg > 0
        /\ \E k \in DOMAIN storage : storage[k][1] = t.seg

\* C6: set appends its record to segment N + 1 when the highest segment N
\* of the directory holds Threshold bytes or more, to N itself otherwise,
\* and the index entry of the key points into that segment.
C6_Rollover ==
    [][(opened /\ last'.op = "set") =>
          LET N == HighestSegment(disk)
              target == IF FileSize(disk, N) >= Threshold THEN N + 1 ELSE N
              k == last'.key IN
          /\ disk' = Append2(disk, target, Encode(SetTx(k, sess'[k].value)))
          /\ storage'[k][1] = target
          /\ GetOutcome(storage', disk', k) = sess'[k]]_vars

\* C7: open fails exactly when reading some file ends in a decode error
\* that is not a lack of bytes; when it succeeds, the last record of a key
\* over all files read in ascending order, each up to where its bytes run
\* out, decides the key's index entry.
C7_OpenFailsOnBadRecord ==
    last.op = "open" =>
        /\ (last.res = "err") <=>
               (\E i \in DOMAIN disk : ScanEnd(disk[i], 0) = "bad")
        /\ last.res = "ok" =>
               \A i \in DOMAIN disk : \A pos \in RecordStarts(disk[i], 0) :
                  LET d == Decode(disk[i], pos)
                      later(j, q) ==
                          /\ (j > i \/ (j = i /\ q > pos))
                          /\ Decode(disk[j], q).key = d.key
                  IN  (~ \E j \in DOMAIN disk :
                            \E q \in RecordStarts(disk[j], 0) : later(j, q))
                      => IF d.kind = "Set"
                         THEN /\ d.key \in DOMAIN storage
                              /\ storage[d.key] = <<i, pos>>
                         ELSE d.key \notin DOMAIN storage

\* An open that read the whole first file, went on to a later file and
\* failed on a bad record there.
C7_Witness ==
    /\ last.op = "open"
    /\ last.res = "err"
    /\ 0 \in DOMAIN disk
    /\ RecordStarts(disk[0], 0) # {}
    /\ ScanEnd(disk[0], 0) = "eof"
    /\ \E i \in DOMAIN disk : i > 0 /\ ScanEnd(disk[i], 0) = "bad"

\* An open that succeeded although the records of some file stop short of
\* its end, and indexed a key of a later file.
C7_WitnessContinue ==
    /\ last.op = "open"
    /\ last.res = "ok"
    /\ \E i \in DOMAIN disk :
          /\ \E q \in 0..(Len(disk[i]) - 1) :
                q \notin RecordStarts(disk[i], 0) /\ Decode(disk[i], q).kind = "eof"
          /\ \E k \in DOMAIN storage : storage[k][1] > i

\* C8: when the record at the offset of the index entry of k decodes to a
\* Remove, get(k) returns an InternalInconsistency error and the store
\* stays usable.
C8_GetReportsInconsistency ==
    [][\A k \in Keys :
          ( /\ opened
            /\ last'.op = "get"
            /\ last'.key = k
            /\ k \in DOMAIN storage
            /\ Decode(FileBytes(disk, storage[k][1]), storage[k][2]).kind
                   = "Remove" )
          => (last'.res = "InternalInconsistency" /\ opened')]_vars

\* C9: every append goes to a segment whose id is at least the id of every
\* segment of the directory.
C9_OnlyHighestAppended ==
    [][\A i \in DOMAIN disk' :
          FileBytes(disk, i) # disk'[i] => \A j \in DOMAIN disk : i >= j]_vars

\* C10: every index entry names a file of the directory and an offset at
\* which a record of that file begins, and that record is a Set of the key.
C10_IndexPointsAtSet ==
    opened =>
        \A k \in DOMAIN storage :
            LET i == storage[k][1]
                pos == storage[k][2] IN
            /\ i \in DOMAIN disk
            /\ pos \in RecordStarts(disk[i], 0)
            /\ Decode(disk[i], pos).kind = "Set"
            /\ Decode(disk[i], pos).key = k

\* After a reopen, an entry that lies behind a Remove record of its file.
C10_Witness ==
    /\ opened
    /\ last.op = "open"
    /\ \E k \in DOMAIN storage :
          /\ \E q \in RecordStarts(disk[storage[k][1]], 0) :
                /\ q < storage[k][2]
                /\ Decode(disk[storage[k][1]], q).kind = "Remove"

\* C11: a successful remove(k) appends its Remove record to the file that
\* set would write to in the same state.
C11_RemoveUsesSetTarget ==
    [][(opened /\ last'.op = "remove" /\ last'.res = "ok") =>
          disk' = Append2(disk, SetTarget(files, disk),
                          Encode(RemoveTx(last'.key)))]_vars

\* C12: set(k, v) raises the expired count of the file that held the
\* previous record of k by exactly 1 and leaves every other count as it
\* was (a file without an entry counting 0); it changes no count when k
\* had no index entry.
C12_SetExpiresOldRecord ==
    [][(opened /\ last'.op = "set") =>
          LET k == last'.key IN
          \A i \in DOMAIN files \cup DOMAIN files' \cup DOMAIN disk' :
             Count(files', i) =
                Count(files, i)
                  + (IF k \in DOMAIN storage /\ storage[k][1] = i
                     THEN 1 ELSE 0)]_vars

\* A set that wrote to file 1 a key whose previous record is in file 0.
C12_Witness ==
    /\ opened
    /\ last.op = "set"
    /\ last.seg = 1
    /\ Count(files, 0) = 1
    /\ Count(files, 1) = 0
    /\ \E q \in RecordStarts(FileBytes(disk, 0), 0) :
          /\ Decode(disk[0], q).kind = "Set"
          /\ Decode(disk[0], q).key = last.key

\* The number of Set records of a file.
SetRecords(bytes) ==
    Cardinality({q \in RecordStarts(bytes, 0) : Decode(bytes, q).kind = "Set"})

\* C13: for every file the expired count (0 without an entry) is the number
\* of its Set records minus the number of index entries that point into it.
C13_ExpiredCountExact ==
    opened =>
        \A i \in DOMAIN disk \cup DOMAIN files :
            Count(files, i) =
                SetRecords(FileBytes(disk, i))
                  - Cardinality({k \in DOMAIN storage : storage[k][1] = i})

\* After a reopen, a file with an expired record and a live one.
C13_Witness ==
    /\ opened
    /\ last.op = "open"
    /\ \E i \in DOMAIN files :
          /\ files[i] >= 1
          /\ \E k \in DOMAIN storage : storage[k][1] = i
    /\ Cardinality(DOMAIN disk) >= 2

\* C14: after open the expired counts have an entry for every file of the
\* directory, and their highest key is the highest file of the directory.
C14_OpenTracksEveryFile ==
    (opened /\ last.op = "open") =>
        /\ DOMAIN disk \subseteq DOMAIN files
        /\ ActiveFileIndex(files) = HighestSegment(disk)

\* The last record of a key, over the files in ascending order and each
\* file from its start, decides the index entry of the key.
LastRecordDecides(d, st) ==
    \A i \in DOMAIN d : \A pos \in RecordStarts(d[i], 0) :
        LET r == Decode(d[i], pos) IN
        (~ \E j \in DOMAIN d : \E q \in RecordStarts(d[j], 0) :
              /\ (j > i \/ (j = i /\ q > pos))
              /\ Decode(d[j], q).key = r.key)
        => IF r.kind = "Set"
           THEN r.key \in DOMAIN st /\ st[r.key] = <<i, pos>>
           ELSE r.key \notin DOMAIN st

\* C15: the index and the expired counts open builds are those of every
\* order in which the directory may be listed, and the record of a key in
\* the highest file (the last one within it) decides its entry.
C15_ReplayInAscendingOrder ==
    (opened /\ last.op = "open") =>
        /\ \A listing \in Listings(Entries(disk, others)) :
              LET r == OpenResultIn(disk, listing) IN
              ~r.err /\ r.storage = storage /\ r.files = files
        /\ LastRecordDecides(disk, storage)

\* An open over three files, a key set in the first and removed in a later
\* one, another key live in a later file.
C15_Witness ==
    /\ opened
    /\ last.op = "open"
    /\ Cardinality(DOMAIN disk) >= 3
    /\ DOMAIN storage # {}
    /\ \E i, j \in DOMAIN disk :
          /\ i < j
          /\ \E p \in RecordStarts(disk[i], 0), q \in RecordStarts(disk[j], 0) :
                /\ Decode(disk[i], p).kind = "Set"
                /\ Decode(disk[j], q).kind = "Remove"
                /\ Decode(disk[i], p).key = Decode(disk[j], q).key
                /\ Decode(disk[i], p).key \notin DOMAIN storage

IsPrefix(a, b) == Len(a) <= Len(b) /\ SubSeq(b, 1, Len(a)) = a

\* C16: no step removes a file or changes the bytes a file holds; a
\* successful set or remove adds the encoding of its record to the end of
\* one file and nothing else; get changes neither the files nor the index
\* nor the expired counts.
C16_AppendOnly ==
    [][/\ \A i \in DOMAIN disk :
             i \in DOMAIN disk' /\ IsPrefix(disk[i], disk'[i])
       /\ (opened /\ last'.op \in {"set", "remove"} /\ last'.res = "ok") =>
             LET k == last'.key
                 rec == IF last'.op = "set"
                        THEN Encode(SetTx(k, sess'[k].value))
                        ELSE Encode(RemoveTx(k)) IN
             \E i \in DOMAIN disk' :
                /\ disk'[i] = FileBytes(disk, i) \o rec
                /\ \A j \in DOMAIN disk' \ {i} :
                      j \in DOMAIN disk /\ disk'[j] = disk[j]
       /\ (opened /\ last'.op = "get") =>
             (disk' = disk /\ storage' = storage /\ files' = files)]_vars

\* A set that wrote behind the records of a file, with a second file in
\* the directory.
C16_Witness ==
    /\ opened
    /\ last.op = "set"
    /\ storage[last.key][2] > 0
    /\ Cardinality(DOMAIN disk) >= 2

\* C17: on a store opened over a partial record, the value of a set is
\* returned by get on that store, and a reopen succeeds and returns it too.
C17_WriteAfterPartialKept ==
    (opened /\ torn # {}) =>
        \A k \in Keys :
            sess[k].res = "value" =>
                LET r == OpenResult(disk) IN
                /\ GetOutcome(storage, disk, k) = sess[k]
                /\ ~r.err
                /\ GetOutcome(r.storage, disk, k) = sess[k]

\* C18: a remove that returns KeyNotFound leaves the files, the index and
\* the expired counts as they were.
C18_FailedRemoveChangesNothing ==
    [][(opened /\ last'.op = "remove" /\ last'.res = "KeyNotFound") =>
          (disk' = disk /\ storage' = storage /\ files' = files)]_vars

\* A remove that failed on a store with a key in its index and two files.
C18_Witness ==
    /\ opened
    /\ last.op = "remove"
    /\ last.res = "KeyNotFound"
    /\ DOMAIN storage # {}
    /\ Cardinality(DOMAIN disk) >= 2

\* C19: the file a successful set or remove wrote to has an entry in the
\* expired counts afterwards.
C19_WrittenFileTracked ==
    [][(opened /\ last'.op \in {"set", "remove"} /\ last'.res = "ok") =>
          \A i \in DOMAIN disk' :
             disk'[i] # FileBytes(disk, i) => i \in DOMAIN files']_vars

\* C20: open creates and changes no file, and builds the index and the
\* expired counts of the log files alone, whatever else the directory
\* holds.
C20_ForeignEntriesIgnored ==
    [][(~opened /\ last'.op = "open") =>
          /\ disk' = disk
          /\ last'.res = "ok" =>
                LET r == OpenResult(disk) IN
                storage' = r.storage /\ files' = r.files]_vars

====
